---- MODULE Spec2Model ----
(***************************************************************************)
(* Lead quality engine: the LeadScorer model state (models/lead_scorer.py) *)
(* and the HubSpot export formatter (utils/hubspot_formatter.py).          *)
(*                                                                         *)
(* Units.  Feature values are hundredths (0.75 is 75).  Lead scores are    *)
(* thousandths (0.8 is 800).  A non-finite float is the value Inf.         *)
(*                                                                         *)
(* Library behaviour is modelled where the code calls it:                 *)
(*  - sklearn StandardScaler.fit resets the scaler, then validates its     *)
(*    input (an infinite cell raises ValueError); transform checks that    *)
(*    the scaler is fitted, then validates (no row, or an infinite cell,   *)
(*    raises ValueError);                                                  *)
(*  - sklearn train_test_split(test_size=0.2) puts ceil(0.2 n) rows in the *)
(*    test part and raises ValueError when the train part would be empty;  *)
(*    which rows go where is a fixed shuffle of the row count, modelled as *)
(*    any choice of a test set of that size;                               *)
(*  - RandomForestClassifier.fit records the classes present in y_train;   *)
(*    predict_proba has one column per recorded class.  The probability a  *)
(*    fitted forest gives a row is a fixed but unknown function of the     *)
(*    forest, of the scaler that scaled the row and of the row: it is kept *)
(*    as that triple.                                                      *)
(***************************************************************************)
EXTENDS Integers, Sequences, FiniteSets, TLC

VARIABLES
    is_trained, scaler, model,  \* the LeadScorer's model state
    calls,                      \* train calls made so far
    succeeded,                  \* train calls that returned (history)
    last,                       \* the last call and what it gave the caller
    table, out,                 \* a scored table and the formatter's output
    threads                     \* a train and a predict_scores call in progress

vars == <<is_trained, scaler, model, calls, succeeded, last, table, out, threads>>

scorerVars == <<is_trained, scaler, model, calls, succeeded, last>>

fmtVars == <<table, out>>

\* ------------------------------------------------------------------ bounds

\* Rows of a feature table given to train or predict_scores.
MaxRows == 3

\* Calls of train in one behaviour.
MaxTrainCalls == 2

\* Scores in one categorize_leads call.
MaxCatLen == 2

\* A non-finite feature value (numpy inf).
Inf == 1000000

\* ------------------------------------------------------------- LeadScorer

feature_columns ==
    <<"email_quality", "phone_quality", "title_value",
      "data_completeness", "industry_fit">>

\* Feature rows the tables are made of: a lead with nothing filled in
\* (weight 0, label 0 whatever the noise), a lead whose heuristic weight is
\* 0.7 (its label depends on the noise drawn) and the same lead with an
\* infinite phone_quality cell.
PoorRow ==
    [email_quality |-> 0, phone_quality |-> 0, title_value |-> 0,
     data_completeness |-> 0, industry_fit |-> 50]

MidRow ==
    [email_quality |-> 100, phone_quality |-> 30, title_value |-> 100,
     data_completeness |-> 75, industry_fit |-> 70]

InfRow == [MidRow EXCEPT !.phone_quality = Inf]

FeatureRows == {PoorRow, MidRow, InfRow}

\* Noise draws of np.random.normal(0, 0.05), in hundredths.
NoiseSet == {-10, 0}

SeqsUpTo(S, n) == UNION {[1..k -> S] : k \in 0..n}

\* A table: whether it has the five feature columns, and its rows.
FeatureTables ==
    {[cols |-> TRUE, rows |-> r] : r \in SeqsUpTo(FeatureRows, MaxRows)}
    \cup {[cols |-> FALSE, rows |-> r] : r \in {<<>>, <<MidRow>>}}

IsFiniteRow(row) ==
    \A c \in 1..Len(feature_columns) : row[feature_columns[c]] # Inf

clip(v, lo, hi) == IF v < lo THEN lo ELSE IF v > hi THEN hi ELSE v

\* The heuristic with the 0.4 bonus given for a good email or a good title.
heuristic_score_either(row) ==
    (IF row.email_quality >= 80 \/ row.title_value >= 80 THEN 40 ELSE 0)
    + (IF row.data_completeness >= 75 THEN 30 ELSE 0)
    + (IF row.industry_fit >= 90 THEN 20 ELSE 0)
    + (IF row.phone_quality >= 80 THEN 10 ELSE 0)

\* lead_scorer.py:26-39: the additive heuristic of one row.
heuristic_score(row) ==
    (IF row.email_quality >= 80 /\ row.title_value >= 80 THEN 40 ELSE 0)
    + (IF row.data_completeness >= 75 THEN 30 ELSE 0)
    + (IF row.industry_fit >= 90 THEN 20 ELSE 0)
    + (IF row.phone_quality >= 80 THEN 10 ELSE 0)

\* lead_scorer.py:42-46: the label of one row given its noise draw.
row_label(row, noise) ==
    IF clip(heuristic_score(row) + noise, 0, 100) > 60 THEN 1 ELSE 0

\* lead_scorer.py:17-48: one label per row, in row order.
create_training_labels(rows, noise) ==
    [i \in 1..Len(rows) |-> row_label(rows[i], noise[i])]

RECURSIVE SumSeq(_)
SumSeq(s) == IF s = <<>> THEN 0 ELSE s[1] + SumSeq(Tail(s))

\* train_test_split(test_size=0.2): number of test rows is ceil(0.2 n).
n_test(n) == (n + 4) \div 5

n_train(n) == n - n_test(n)

TestSets(n) == {T \in SUBSET (1..n) : Cardinality(T) = n_test(n)}

\* The model state of a LeadScorer.
ModelState == [is_trained |-> is_trained, scaler |-> scaler, model |-> model]

UnfittedScaler == [fit |-> 0]

UnfittedForest == [fit |-> 0, classes |-> {}, importances |-> <<>>]

\* feature_importances_ of a fitted forest, in 1/10000, one per feature
\* column: normalised to sum to 1 when some tree has a split.
ImportanceSet ==
    {<<5000, 2500, 1500, 600, 400>>, <<1204, 1204, 3796, 3796, 0>>}

\* A forest fitted on one class has no split: every importance is 0.
NoSplitImportances == <<0, 0, 0, 0, 0>>

Raise(st, err) == [st |-> st, status |-> "raise", err |-> err, value |-> <<>>]

Return(st, v) == [st |-> st, status |-> "ok", err |-> "", value |-> v]

\* StandardScaler.fit_transform(X_train), lead_scorer.py:61.  fit resets
\* the scaler before it validates X_train.
scaler_fit(rows, id) ==
    IF \A i \in 1..Len(rows) : IsFiniteRow(rows[i])
    THEN [ok |-> TRUE, scaler |-> [fit |-> id]]
    ELSE [ok |-> FALSE, scaler |-> UnfittedScaler]

\* StandardScaler.transform(X): "ok", or the error raised.
scaler_transform(sc, rows) ==
    IF sc.fit = 0 THEN "NotFittedError"
    ELSE IF Len(rows) = 0 THEN "ValueError"
    ELSE IF \E i \in 1..Len(rows) : ~IsFiniteRow(rows[i]) THEN "ValueError"
    ELSE "ok"

\* RandomForestClassifier.fit(X_train_scaled, y_train), lead_scorer.py:65.
model_fit(labels, id, imp) ==
    [fit |-> id, classes |-> labels,
     importances |-> IF Cardinality(labels) < 2 THEN NoSplitImportances ELSE imp]

SubSeqOf(s, idx) ==
    LET F[k \in 0..Len(s)] ==
            IF k = 0 THEN <<>>
            ELSE IF k \in idx THEN Append(F[k - 1], s[k]) ELSE F[k - 1]
    IN F[Len(s)]

\* train with is_trained cleared on entry and set again at the end.
train_clears_flag(st, df, noise, test, imp, id) ==
    LET st0 == [st EXCEPT !.is_trained = FALSE]
        n == Len(df.rows)
        y == create_training_labels(df.rows, noise)
        trainIdx == (1..n) \ test
        fitted == scaler_fit(SubSeqOf(df.rows, trainIdx), id)
        st1 == [st0 EXCEPT !.scaler = fitted.scaler]
        st3 == [st1 EXCEPT !.model = model_fit({y[i] : i \in trainIdx}, id, imp),
                           !.is_trained = TRUE]
    IN  IF ~df.cols THEN Raise(st0, "KeyError")
        ELSE IF n_train(n) = 0 THEN Raise(st0, "ValueError")
        ELSE IF ~fitted.ok THEN Raise(st1, "ValueError")
        ELSE IF scaler_transform(st1.scaler, SubSeqOf(df.rows, test)) # "ok"
                THEN Raise(st1, "ValueError")
        ELSE Return(st3, [train_accuracy |-> <<"score", id, "train">>,
                          test_accuracy |-> <<"score", id, "test">>,
                          total_samples |-> n,
                          positive_leads |-> SumSeq(y)])

\* train with is_trained set before the features are read and split.
train_flag_first(st, df, noise, test, imp, id) ==
    LET st0 == [st EXCEPT !.is_trained = TRUE]
        n == Len(df.rows)
        y == create_training_labels(df.rows, noise)
        trainIdx == (1..n) \ test
        fitted == scaler_fit(SubSeqOf(df.rows, trainIdx), id)
        st1 == [st0 EXCEPT !.scaler = fitted.scaler]
        st3 == [st1 EXCEPT !.model = model_fit({y[i] : i \in trainIdx}, id, imp)]
    IN  IF ~df.cols THEN Raise(st0, "KeyError")
        ELSE IF n_train(n) = 0 THEN Raise(st0, "ValueError")
        ELSE IF ~fitted.ok THEN Raise(st1, "ValueError")
        ELSE IF scaler_transform(st1.scaler, SubSeqOf(df.rows, test)) # "ok"
                THEN Raise(st1, "ValueError")
        ELSE Return(st3, [train_accuracy |-> <<"score", id, "train">>,
                          test_accuracy |-> <<"score", id, "test">>,
                          total_samples |-> n,
                          positive_leads |-> SumSeq(y)])

\* lead_scorer.py:50-78: train(df) from model state st, as train call id,
\* with the noise drawn for each row and the test part of the split.
train(st, df, noise, test, imp, id) ==
    IF ~df.cols THEN Raise(st, "KeyError")
    ELSE
    LET n == Len(df.rows)
        y == create_training_labels(df.rows, noise)
        trainIdx == (1..n) \ test
        X_train == SubSeqOf(df.rows, trainIdx)
        X_test == SubSeqOf(df.rows, test)
        fitted == scaler_fit(X_train, id)
        st1 == [st EXCEPT !.scaler = fitted.scaler]
        st2 == [st1 EXCEPT !.model = model_fit({y[i] : i \in trainIdx}, id, imp)]
        st3 == [st2 EXCEPT !.is_trained = TRUE]
    IN  IF n_train(n) = 0 THEN Raise(st, "ValueError")
        ELSE IF ~fitted.ok THEN Raise(st1, "ValueError")
        ELSE IF scaler_transform(st1.scaler, X_test) # "ok"
                THEN Raise(st1, scaler_transform(st1.scaler, X_test))
        ELSE Return(st3, [train_accuracy |-> <<"score", id, "train">>,
                          test_accuracy |-> <<"score", id, "test">>,
                          total_samples |-> n,
                          positive_leads |-> SumSeq(y)])

\* predict_proba(X_scaled)[:, 1] of one row: the forest, the scaler that
\* scaled the row, and the row.
proba(st, row) == [forest |-> st.model.fit, scaled_by |-> st.scaler.fit, x |-> row]

\* predict_scores without the is_trained check.
predict_scores_unguarded(st, df) ==
    IF ~df.cols THEN Raise(st, "KeyError")
    ELSE IF scaler_transform(st.scaler, df.rows) # "ok"
            THEN Raise(st, scaler_transform(st.scaler, df.rows))
    ELSE IF st.model.fit = 0 THEN Raise(st, "NotFittedError")
    ELSE IF Cardinality(st.model.classes) < 2 THEN Raise(st, "IndexError")
    ELSE Return(st, [i \in 1..Len(df.rows) |-> proba(st, df.rows[i])])

\* predict_scores calling scaler.fit_transform where the code calls
\* scaler.transform: the scaler is refitted on the rows to score.
predict_scores_refits(st, df) ==
    LET fitted == scaler_fit(df.rows, -1)
        st1 == [st EXCEPT !.scaler = fitted.scaler]
    IN  IF ~st.is_trained THEN Raise(st, "ValueError: Model must be trained first!")
        ELSE IF ~df.cols THEN Raise(st, "KeyError")
        ELSE IF ~fitted.ok \/ Len(df.rows) = 0 THEN Raise(st1, "ValueError")
        ELSE IF Cardinality(st.model.classes) < 2 THEN Raise(st1, "IndexError")
        ELSE Return(st1, [i \in 1..Len(df.rows) |-> proba(st1, df.rows[i])])

\* lead_scorer.py:80-91: predict_scores(df) from model state st.
predict_scores(st, df) ==
    IF ~st.is_trained THEN Raise(st, "ValueError: Model must be trained first!")
    ELSE IF ~df.cols THEN Raise(st, "KeyError")
    ELSE IF scaler_transform(st.scaler, df.rows) # "ok"
            THEN Raise(st, scaler_transform(st.scaler, df.rows))
    ELSE IF st.model.fit = 0 THEN Raise(st, "NotFittedError")
    ELSE IF Cardinality(st.model.classes) < 2 THEN Raise(st, "IndexError")
    ELSE Return(st, [i \in 1..Len(df.rows) |-> proba(st, df.rows[i])])

\* Scores given to categorize_leads, in thousandths.
CatScores == {0, 399, 400, 599, 600, 799, 800}

\* category with the thresholds themselves left in the lower bucket.
category_strict(score) ==
    IF score > 800 THEN "Hot Lead"
    ELSE IF score > 600 THEN "Warm Lead"
    ELSE IF score > 400 THEN "Cold Lead"
    ELSE "Low Priority"

\* lead_scorer.py:97-104: the category of one score.
category(score) ==
    IF score >= 800 THEN "Hot Lead"
    ELSE IF score >= 600 THEN "Warm Lead"
    ELSE IF score >= 400 THEN "Cold Lead"
    ELSE "Low Priority"

\* lead_scorer.py:93-105.
categorize_leads(st, scores) ==
    Return(st, [i \in 1..Len(scores) |-> category(scores[i])])

\* Python round(x) of x = v / d for integers v >= 0, d > 0: the nearest
\* integer, a tie going to the even one.
RoundHalfEven(v, d) ==
    LET q == v \div d
        r == v % d
    IN  IF 2 * r < d THEN q
        ELSE IF 2 * r > d THEN q + 1
        ELSE IF q % 2 = 0 THEN q ELSE q + 1

\* sorted(items, key=lambda x: x[1], reverse=True): descending by the
\* second component, equal keys keeping their order.
RECURSIVE InsertDesc(_, _)
InsertDesc(sorted, item) ==
    IF sorted = <<>> THEN <<item>>
    ELSE IF Head(sorted)[2] >= item[2]
         THEN <<Head(sorted)>> \o InsertDesc(Tail(sorted), item)
         ELSE <<item>> \o sorted

RECURSIVE SortDesc(_)
SortDesc(items) ==
    IF items = <<>> THEN <<>>
    ELSE InsertDesc(SortDesc(SubSeq(items, 1, Len(items) - 1)), items[Len(items)])

\* get_feature_importance without the is_trained check: feature_importances_
\* of a forest that was never fitted raises NotFittedError.
get_feature_importance_unguarded(st) ==
    IF st.model.fit = 0 THEN Raise(st, "NotFittedError")
    ELSE Return(st, SortDesc([c \in 1..Len(feature_columns) |->
                      <<feature_columns[c],
                        RoundHalfEven(st.model.importances[c], 10)>>]))

\* lead_scorer.py:107-117: the empty mapping when untrained, else the
\* feature names with their importance rounded to 3 decimals (thousandths),
\* sorted by it, descending.
get_feature_importance(st) ==
    IF ~st.is_trained THEN Return(st, <<>>)
    ELSE Return(st, SortDesc([c \in 1..Len(feature_columns) |->
                      <<feature_columns[c],
                        RoundHalfEven(st.model.importances[c], 10)>>]))

\* The record kept of the last call: the operation, its argument, the model
\* state it started from, and what it gave the caller.
Call(op, arg, pre, res) ==
    [op |-> op, arg |-> arg, pre |-> pre,
     status |-> res.status, err |-> res.err, value |-> res.value]

SetState(st) ==
    /\ is_trained' = st.is_trained
    /\ scaler' = st.scaler
    /\ model' = st.model

NoCall == [op |-> "init", arg |-> <<>>, pre |-> <<>>,
           status |-> "ok", err |-> "", value |-> <<>>]

\* The caller is between two calls: the last result has been consumed.
Idle == last = NoCall

Train ==
    /\ Idle
    /\ calls < MaxTrainCalls
    /\ \E df \in FeatureTables :
         \E noise \in [1..Len(df.rows) -> NoiseSet] :
           \E test \in TestSets(Len(df.rows)), imp \in ImportanceSet :
             LET res == train(ModelState, df, noise, test, imp, calls + 1)
             IN  /\ SetState(res.st)
                 /\ last' = Call("train", df, ModelState, res)
                 /\ succeeded' = succeeded + (IF res.status = "ok" THEN 1 ELSE 0)
    /\ calls' = calls + 1
    /\ UNCHANGED <<table, out, threads>>

PredictScores ==
    /\ Idle
    /\ \E df \in FeatureTables :
         LET res == predict_scores(ModelState, df)
         IN  /\ SetState(res.st)
             /\ last' = Call("predict_scores", df, ModelState, res)
    /\ UNCHANGED <<calls, succeeded, table, out, threads>>

CategorizeLeads ==
    /\ Idle
    /\ \E scores \in SeqsUpTo(CatScores, MaxCatLen) :
         LET res == categorize_leads(ModelState, scores)
         IN  /\ SetState(res.st)
             /\ last' = Call("categorize_leads", scores, ModelState, res)
    /\ UNCHANGED <<calls, succeeded, table, out, threads>>

GetFeatureImportance ==
    /\ Idle
    /\ LET res == get_feature_importance(ModelState)
       IN  /\ SetState(res.st)
           /\ last' = Call("get_feature_importance", <<>>, ModelState, res)
    /\ UNCHANGED <<calls, succeeded, table, out, threads>>

\* The caller takes the result (or the exception) of the last call and goes on.
Resume ==
    /\ ~Idle
    /\ last' = NoCall
    /\ UNCHANGED <<is_trained, scaler, model, calls, succeeded, table, out, threads>>

\* lead_scorer.py:8-15.
ScorerInit ==
    /\ is_trained = FALSE
    /\ scaler = UnfittedScaler
    /\ model = UnfittedForest
    /\ calls = 0
    /\ succeeded = 0
    /\ last = NoCall


\* ------------------------------- train and predict_scores in two threads

\* Calls of predict_scores made by the predicting thread.
MaxPredictCalls == 2

\* Rows of a table the predicting thread gives to predict_scores.
MaxPredictRows == 1

PredictTables == {df \in FeatureTables : Len(df.rows) <= MaxPredictRows}

\* A scaler and a forest whose fit by train call id has begun and has not
\* ended: some of the fitted attributes are set, others are not.
FittingScaler(id) == [fit |-> -id]

FittingForest(id) == [fit |-> -id, classes |-> {}, importances |-> <<>>]

\* train with is_trained set right after the split, before the fits.
train_order_flag_first ==
    <<"split", "set_is_trained", "scaler_fit_begin", "scaler_fit_end",
      "transform_test", "model_fit_begin", "model_fit_end", "return">>

\* lead_scorer.py:54-78: the statements of train in the order they run:
\* features, labels and split (54-58), scaler.fit_transform (61),
\* scaler.transform of the test part (62), model.fit (65),
\* is_trained = True (71), return (73-78).
train_order ==
    <<"split", "scaler_fit_begin", "scaler_fit_end", "transform_test",
      "model_fit_begin", "model_fit_end", "set_is_trained", "return">>

\* The position of a train call that has returned or raised.
Finished == Len(train_order) + 1

\* The training thread before its call, and the predicting thread between
\* two calls.
NoTrain ==
    [pc |-> 0, X_train |-> <<>>, X_test |-> <<>>, y_train |-> {},
     status |-> "none", err |-> ""]

NoPredict(done, refused) ==
    [pc |-> "idle", df |-> <<>>, passed |-> FALSE,
     used_scaler |-> {}, used_model |-> {},
     status |-> "none", err |-> "", value |-> <<>>,
     calls |-> done, refused |-> refused]

NoThreads == [train |-> NoTrain, predict |-> NoPredict(0, 0)]

\* The training thread is about to run the statement named.
TrainAt(statement) ==
    /\ threads.train.pc \in 1..Len(train_order)
    /\ train_order[threads.train.pc] = statement

TrainGoesOn == threads' = [threads EXCEPT !.train.pc = @ + 1]

TrainRaises(err) ==
    threads' = [threads EXCEPT
                  !.train = [NoTrain EXCEPT !.pc = Finished,
                                            !.status = "raise", !.err = err]]

\* lead_scorer.py:54-58: the first train call begins: features, labels and
\* the split.
TrainSplit ==
    /\ calls = 0
    /\ threads.train.pc = 0
    /\ calls' = calls + 1
    /\ \E df \in FeatureTables :
         \E noise \in [1..Len(df.rows) -> NoiseSet] :
           \E test \in TestSets(Len(df.rows)) :
             LET n == Len(df.rows)
                 y == create_training_labels(df.rows, noise)
                 trainIdx == (1..n) \ test
             IN  IF ~df.cols THEN TrainRaises("KeyError")
                 ELSE IF n_train(n) = 0 THEN TrainRaises("ValueError")
                 ELSE threads' =
                        [threads EXCEPT
                           !.train = [NoTrain EXCEPT
                                        !.pc = 2,
                                        !.X_train = SubSeqOf(df.rows, trainIdx),
                                        !.X_test = SubSeqOf(df.rows, test),
                                        !.y_train = {y[i] : i \in trainIdx}]]
    /\ UNCHANGED <<is_trained, scaler, model, succeeded, last, table, out>>

\* lead_scorer.py:61: fit resets the scaler, validates X_train and begins
\* to set the fitted attributes.
TrainScalerFitBegin ==
    /\ TrainAt("scaler_fit_begin")
    /\ IF scaler_fit(threads.train.X_train, calls).ok
       THEN scaler' = FittingScaler(calls) /\ TrainGoesOn
       ELSE scaler' = UnfittedScaler /\ TrainRaises("ValueError")
    /\ UNCHANGED <<is_trained, model, calls, succeeded, last, table, out>>

\* lead_scorer.py:61: the last fitted attribute of the scaler is set.
TrainScalerFitEnd ==
    /\ TrainAt("scaler_fit_end")
    /\ scaler' = scaler_fit(threads.train.X_train, calls).scaler
    /\ TrainGoesOn
    /\ UNCHANGED <<is_trained, model, calls, succeeded, last, table, out>>

\* lead_scorer.py:62.
TrainTransformTest ==
    /\ TrainAt("transform_test")
    /\ IF scaler_transform(scaler, threads.train.X_test) = "ok"
       THEN TrainGoesOn
       ELSE TrainRaises(scaler_transform(scaler, threads.train.X_test))
    /\ UNCHANGED <<is_trained, scaler, model, calls, succeeded, last, table, out>>

\* lead_scorer.py:65: model.fit begins to build the forest.
TrainModelFitBegin ==
    /\ TrainAt("model_fit_begin")
    /\ model' = FittingForest(calls)
    /\ TrainGoesOn
    /\ UNCHANGED <<is_trained, scaler, calls, succeeded, last, table, out>>

\* lead_scorer.py:65: the forest is built.
TrainModelFitEnd ==
    /\ TrainAt("model_fit_end")
    /\ \E imp \in ImportanceSet :
         model' = model_fit(threads.train.y_train, calls, imp)
    /\ TrainGoesOn
    /\ UNCHANGED <<is_trained, scaler, calls, succeeded, last, table, out>>

\* lead_scorer.py:71.
TrainSetIsTrained ==
    /\ TrainAt("set_is_trained")
    /\ is_trained' = TRUE
    /\ TrainGoesOn
    /\ UNCHANGED <<scaler, model, calls, succeeded, last, table, out>>

\* lead_scorer.py:73-78.
TrainReturn ==
    /\ TrainAt("return")
    /\ succeeded' = succeeded + 1
    /\ threads' = [threads EXCEPT
                     !.train = [NoTrain EXCEPT !.pc = Finished, !.status = "ok"]]
    /\ UNCHANGED <<is_trained, scaler, model, calls, last, table, out>>

PredictRaises(err) ==
    threads' = [threads EXCEPT !.predict.pc = "done",
                               !.predict.status = "raise",
                               !.predict.err = err]

\* lead_scorer.py:82-83: a predict_scores call begins: the is_trained check.
PredictCheck ==
    /\ threads.predict.pc = "idle"
    /\ threads.predict.calls < MaxPredictCalls
    /\ \E df \in PredictTables :
         IF ~is_trained
         THEN threads' = [threads EXCEPT
                            !.predict.pc = "done",
                            !.predict.status = "raise",
                            !.predict.err = "ValueError: Model must be trained first!",
                            !.predict.refused = @ + 1]
         ELSE threads' = [threads EXCEPT !.predict.pc = "transform",
                                         !.predict.df = df,
                                         !.predict.passed = TRUE]
    /\ UNCHANGED <<is_trained, scaler, model, calls, succeeded, last, table, out>>

\* lead_scorer.py:85-86: the feature columns are read and given to
\* scaler.transform.  A scaler that is being fitted gives whatever the
\* attributes set so far give: an error or scaled rows.
PredictTransform ==
    /\ threads.predict.pc = "transform"
    /\ LET df == threads.predict.df
           Scaled == threads' = [threads EXCEPT !.predict.pc = "predict_proba",
                                                !.predict.used_scaler = {scaler}]
           Fails(err) == threads' = [threads EXCEPT !.predict.pc = "done",
                                                    !.predict.status = "raise",
                                                    !.predict.err = err,
                                                    !.predict.used_scaler = {scaler}]
       IN  IF ~df.cols THEN PredictRaises("KeyError")
           ELSE IF scaler.fit < 0 THEN Scaled \/ Fails("AttributeError")
           ELSE IF scaler_transform(scaler, df.rows) = "ok" THEN Scaled
           ELSE Fails(scaler_transform(scaler, df.rows))
    /\ UNCHANGED <<is_trained, scaler, model, calls, succeeded, last, table, out>>

\* lead_scorer.py:89: model.predict_proba(X_scaled)[:, 1].  A forest that is
\* being built gives whatever the trees built so far give: an error or
\* scores.
PredictProba ==
    /\ threads.predict.pc = "predict_proba"
    /\ LET df == threads.predict.df
           sc == CHOOSE u \in threads.predict.used_scaler : TRUE
           Scores ==
               threads' = [threads EXCEPT
                  !.predict.pc = "done",
                  !.predict.status = "ok",
                  !.predict.used_model = {model},
                  !.predict.value =
                      [i \in 1..Len(df.rows) |->
                          [forest |-> model.fit, scaled_by |-> sc.fit,
                           x |-> df.rows[i]]]]
           Fails(err) == threads' = [threads EXCEPT !.predict.pc = "done",
                                                    !.predict.status = "raise",
                                                    !.predict.err = err,
                                                    !.predict.used_model = {model}]
       IN  IF model.fit < 0 THEN Scores \/ Fails("NotFittedError")
           ELSE IF model.fit = 0 THEN Fails("NotFittedError")
           ELSE IF Cardinality(model.classes) < 2 THEN Fails("IndexError")
           ELSE Scores
    /\ UNCHANGED <<is_trained, scaler, model, calls, succeeded, last, table, out>>

\* The caller of predict_scores takes the scores or the exception.
PredictReturn ==
    /\ threads.predict.pc = "done"
    /\ threads' = [threads EXCEPT
                     !.predict = NoPredict(threads.predict.calls + 1,
                                           threads.predict.refused)]
    /\ UNCHANGED <<is_trained, scaler, model, calls, succeeded, last, table, out>>


\* ------------------------------------------------------- HubSpotFormatter

\* Rows of a scored table given to format_for_hubspot.
MaxFmtRows == 2

\* Rows beyond the ten that create_sales_tasks keeps.
MaxExtraRows == 1

\* Runs of equal scores in a table given to create_sales_tasks.
MaxRuns == 3

\* hubspot_formatter.py:105: df.nlargest(10, 'lead_score').
TopN == 10

\* A cell read from a CSV file that held nothing, or the text N/A, is the
\* float nan (pandas read_csv); it is written "NaN" here.  A frame built in
\* memory can hold the text "N/A" itself.
NaN == "NaN"

NA == "N/A"

\* Names are sequences of characters; nan is the one-element sequence NaNName.
NaNName == <<"nan">>

NAName == <<"N", "/", "A">>

ContactNames ==
    << <<"A", "l", " ", "B", "o">>, NaNName, <<"C", "y">>, NAName >>

ContactNameOf(i) == ContactNames[((i - 1) % Len(ContactNames)) + 1]

EmailCells == {NaN, NA, "al@acme.io"}

PhoneCells == {NaN, NA, "555-010-0199"}

\* Lead scores of the rows given to format_for_hubspot, in thousandths:
\* 0.125 is a tie of round(score * 100) that a float holds exactly; the
\* others are the thresholds and values a tenth of a point off a tie or more.
FmtScores == {125, 596, 600, 797, 800, 950}

\* Lead scores of the rows given to create_sales_tasks.
TaskScores == {590, 600, 800, 900}

\* The i-th row of a scored table.
ScoredRow(i, email, phone, score) ==
    [Company |-> "Company " \o ToString(i),
     Contact_Name |-> ContactNameOf(i),
     Contact_Title |-> IF i % 2 = 1 THEN "CEO" ELSE NA,
     Contact_Email |-> email,
     Contact_Phone |-> phone,
     Website |-> IF i % 2 = 1 THEN NA ELSE "www.acme.io",
     City |-> "Austin",
     State |-> "TX",
     lead_score |-> score,
     category |-> category(score),
     data_completeness |-> 50]

\* Python truth of a cell: nan and any non-empty text are true.
Truthy(v) == v # ""

\* hubspot_formatter.py:135-139.
has_contact_info(row) ==
    LET has_email == Truthy(row.Contact_Email) /\ row.Contact_Email # NA
        has_phone == Truthy(row.Contact_Phone) /\ row.Contact_Phone # NA
    IN  has_email \/ has_phone

\* The whitespace characters of the names: the space and the tab.
IsSpace(c) == c \in {" ", "\t"}

\* str.strip(): leading and trailing whitespace removed.
RECURSIVE Strip(_)
Strip(cs) ==
    IF cs = <<>> THEN <<>>
    ELSE IF IsSpace(Head(cs)) THEN Strip(Tail(cs))
    ELSE IF IsSpace(cs[Len(cs)]) THEN Strip(SubSeq(cs, 1, Len(cs) - 1))
    ELSE cs

\* str.split(' ', 1): the text before the first space and the text after it.
SplitFirstSpace(cs) ==
    IF \E k \in 1..Len(cs) : cs[k] = " "
    THEN LET k == CHOOSE j \in 1..Len(cs) :
                    cs[j] = " " /\ \A h \in 1..(j - 1) : cs[h] # " "
         IN  <<SubSeq(cs, 1, k - 1), SubSeq(cs, k + 1, Len(cs))>>
    ELSE <<cs>>

\* hubspot_formatter.py:141-150.
parse_name(full_name) ==
    IF full_name = NaNName \/ full_name = NAName THEN << <<>>, <<>> >>
    ELSE LET parts == SplitFirstSpace(Strip(full_name))
         IN  <<parts[1], IF Len(parts) > 1 THEN parts[2] ELSE <<>> >>

\* hubspot_formatter.py:152-159.
get_priority_level(score) ==
    IF score >= 800 THEN "High"
    ELSE IF score >= 600 THEN "Medium"
    ELSE "Low"

\* round(lead_score * 100) with the fraction cut off.
lead_score_100_truncated(score) == score \div 10

\* hubspot_formatter.py:39: round(lead_score * 100).
lead_score_100(score) == RoundHalfEven(score, 10)

BlankNA(v) == IF v # NA THEN v ELSE ""

\* datetime.now().strftime('%Y-%m-%d')
Today == "today"

\* hubspot_formatter.py:32-62.
format_contact(row) ==
    LET name == parse_name(row.Contact_Name)
    IN  [email |-> BlankNA(row.Contact_Email),
         firstname |-> name[1],
         lastname |-> name[2],
         jobtitle |-> BlankNA(row.Contact_Title),
         phone |-> BlankNA(row.Contact_Phone),
         company |-> row.Company,
         website |-> BlankNA(row.Website),
         city |-> row.City,
         state |-> row.State,
         ai_lead_score |-> lead_score_100(row.lead_score),
         lead_quality_category |-> row.category,
         lead_priority |-> get_priority_level(row.lead_score),
         data_completeness_score |-> RoundHalfEven(row.data_completeness, 1),
         lead_source |-> "SaaSSquatch Enhanced",
         last_updated |-> Today]

\* hubspot_formatter.py:11-30.
format_for_hubspot(df) ==
    LET kept == SelectSeq(df, has_contact_info)
        hubspot_contacts == [k \in 1..Len(kept) |-> format_contact(kept[k])]
        IsHigh(c) == c.lead_priority = "High"
    IN  [contacts |-> hubspot_contacts,
         summary |-> [total_contacts |-> Len(hubspot_contacts),
                      hot_leads |-> Len(SelectSeq(hubspot_contacts, IsHigh)),
                      import_date |-> Today,
                      source |-> "SaaSSquatch + AI Enhancement"]]

Reverse(s) == [i \in 1..Len(s) |-> s[Len(s) + 1 - i]]

\* The rows sorted by descending lead_score, rows of equal score in table
\* order.
SortedByScore(df) ==
    LET sorted == SortDesc([i \in 1..Len(df) |-> <<df[i], df[i].lead_score>>])
    IN  [k \in 1..Len(df) |-> sorted[k][1]]

\* The rows sorted by descending lead_score, rows of equal score in reverse
\* table order.
SortedByScoreTiesReversed(df) == SortedByScore(Reverse(df))

\* nlargest replaced by head(n): the first n rows in table order.
nlargest_table_order(n, df) ==
    {SubSeq(df, 1, IF Len(df) < n THEN Len(df) ELSE n)}

\* nlargest keeping, among equal scores, the later rows first (keep='last').
nlargest_keep_last(n, df) ==
    {SubSeq(SortedByScoreTiesReversed(df), 1, IF Len(df) < n THEN Len(df) ELSE n)}

\* hubspot_formatter.py:105: df.nlargest(n, 'lead_score'), keep='first': the
\* outcomes it can have.  With more than n rows pandas selects and orders the
\* n largest with a stable sort: highest first, rows of equal score in table
\* order.  With n rows or fewer it returns sort_values(ascending=False), whose
\* default sort (quicksort) leaves the order of equal scores to the numpy
\* build: table order and its reverse stand for the orders it can give.
nlargest(n, df) ==
    IF Len(df) > n
    THEN {SubSeq(SortedByScore(df), 1, n)}
    ELSE {SortedByScore(df), SortedByScoreTiesReversed(df)}

\* hubspot_formatter.py:108-129: the task of one lead, or none.
task_of(lead) ==
    LET score == lead.lead_score
        company == lead.Company
        contact == lead.Contact_Name
        pct == RoundHalfEven(score, 10)
    IN  IF score >= 800
        THEN <<[title |-> "URGENT: Call " \o company,
                description |-> [text |-> "Hot lead", pct |-> pct, contact |-> contact],
                priority |-> "High",
                due_date |-> "1 day",
                task_type |-> "call"]>>
        ELSE IF score >= 600
        THEN <<[title |-> "Research and reach out to " \o company,
                description |-> [text |-> "Warm lead", pct |-> pct,
                                 note |-> "Research before calling."],
                priority |-> "Medium",
                due_date |-> "3 days",
                task_type |-> "research"]>>
        ELSE <<>>

RECURSIVE FlatMapTasks(_)
FlatMapTasks(leads) ==
    IF leads = <<>> THEN <<>>
    ELSE task_of(Head(leads)) \o FlatMapTasks(Tail(leads))

\* create_sales_tasks over every row, the top-10 cut left out.
create_sales_tasks_uncut(df) ==
    {FlatMapTasks(top_leads) : top_leads \in nlargest(Len(df), df)}

\* hubspot_formatter.py:99-133: the task lists it can return, one for each
\* outcome of nlargest.
create_sales_tasks(df) ==
    {FlatMapTasks(top_leads) : top_leads \in nlargest(TopN, df)}

\* The workflow records of the two buckets, hubspot_formatter.py:74-83 and
\* 86-95.
HotWorkflow(hot_count) ==
    [name |-> "Hot Lead Immediate Follow-up",
     trigger |-> "AI Lead Score >= 80",
     actions |-> <<"Create high-priority task for sales rep",
                   "Send Slack notification to sales team",
                   "Set lifecycle stage to \"Sales Qualified Lead\"">>,
     affected_leads |-> hot_count]

WarmWorkflow(warm_count) ==
    [name |-> "Warm Lead Nurture Sequence",
     trigger |-> "AI Lead Score 60-79",
     actions |-> <<"Enroll in email nurture campaign",
                   "Create follow-up task in 3 days",
                   "Add to \"Warm Prospects\" list">>,
     affected_leads |-> warm_count]

\* generate_recommended_workflows with the warm bucket open above: every row
\* from 0.6 up is counted as warm.
generate_recommended_workflows_warm_open(df) ==
    LET IsHot(row) == row.lead_score >= 800
        IsWarm(row) == row.lead_score >= 600
        hot_count == Cardinality({i \in 1..Len(df) : IsHot(df[i])})
        warm_count == Cardinality({i \in 1..Len(df) : IsWarm(df[i])})
    IN  (IF hot_count > 0 THEN <<HotWorkflow(hot_count)>> ELSE <<>>)
        \o (IF warm_count > 0 THEN <<WarmWorkflow(warm_count)>> ELSE <<>>)

\* hubspot_formatter.py:64-97.
generate_recommended_workflows(df) ==
    LET IsHot(row) == row.lead_score >= 800
        IsWarm(row) == row.lead_score >= 600 /\ row.lead_score < 800
        hot_count == Cardinality({i \in 1..Len(df) : IsHot(df[i])})
        warm_count == Cardinality({i \in 1..Len(df) : IsWarm(df[i])})
    IN  (IF hot_count > 0 THEN <<HotWorkflow(hot_count)>> ELSE <<>>)
        \o (IF warm_count > 0 THEN <<WarmWorkflow(warm_count)>> ELSE <<>>)

NoOut == [op |-> "none", value |-> <<>>]

FmtReady == out = NoOut

FmtIdle ==
    /\ table = <<>>
    /\ out = NoOut

Init == ScorerInit /\ FmtIdle /\ threads = NoThreads

Next == Train \/ PredictScores \/ CategorizeLeads \/ GetFeatureImportance \/ Resume

Spec == Init /\ [][Next]_vars

\* The first train call and calls of predict_scores on one LeadScorer, each in
\* a thread of its own, interleaved statement by statement.
ConcNext ==
    \/ TrainSplit \/ TrainScalerFitBegin \/ TrainScalerFitEnd
    \/ TrainTransformTest \/ TrainModelFitBegin \/ TrainModelFitEnd
    \/ TrainSetIsTrained \/ TrainReturn
    \/ PredictCheck \/ PredictTransform \/ PredictProba \/ PredictReturn

SpecConc == Init /\ [][ConcNext]_vars

\* A scored row is appended to the table (the frame the caller is building).
AddLeadRow ==
    /\ FmtReady
    /\ Len(table) < MaxFmtRows
    /\ \E email \in EmailCells, phone \in PhoneCells, score \in FmtScores :
         table' = Append(table, ScoredRow(Len(table) + 1, email, phone, score))
    /\ UNCHANGED <<out, is_trained, scaler, model, calls, succeeded, last, threads>>

FormatForHubspot ==
    /\ FmtReady
    /\ out' = [op |-> "format_for_hubspot", value |-> format_for_hubspot(table)]
    /\ UNCHANGED <<table, is_trained, scaler, model, calls, succeeded, last, threads>>

GenerateRecommendedWorkflows ==
    /\ FmtReady
    /\ out' = [op |-> "generate_recommended_workflows",
               value |-> generate_recommended_workflows(table)]
    /\ UNCHANGED <<table, is_trained, scaler, model, calls, succeeded, last, threads>>

\* The caller takes the formatter's output and goes on.
FmtResume ==
    /\ ~FmtReady
    /\ out' = NoOut
    /\ UNCHANGED <<table, is_trained, scaler, model, calls, succeeded, last, threads>>

FmtNext ==
    AddLeadRow \/ FormatForHubspot \/ GenerateRecommendedWorkflows \/ FmtResume

SpecFmt == Init /\ [][FmtNext]_vars

\* Contact_Name cells: a first and a last name, an absent name, a single
\* name, "N/A", a name with spaces around it, a name with two spaces inside
\* and a name with a tab inside.
NameCells ==
    {<<"A", "l", " ", "B", "o">>, NaNName, <<"C", "y">>, NAName,
     <<" ", "A", "l", " ", "B", "o", " ">>,
     <<"A", "l", " ", " ", "B", "o">>,
     <<"A", "l", "\t", "B", "o">>}

\* A scored row with an email and a name of NameCells is appended to the
\* table.
AddNamedRow ==
    /\ FmtReady
    /\ Len(table) < MaxFmtRows
    /\ \E name \in NameCells, score \in {600, 800} :
         table' = Append(table,
                    [ScoredRow(Len(table) + 1, "al@acme.io", NaN, score)
                        EXCEPT !.Contact_Name = name])
    /\ UNCHANGED <<out, is_trained, scaler, model, calls, succeeded, last, threads>>

NamesNext == AddNamedRow \/ FormatForHubspot \/ FmtResume

SpecNames == Init /\ [][NamesNext]_vars

\* Number of runs of equal scores in a table.
Runs(df) ==
    IF df = <<>> THEN 0
    ELSE 1 + Cardinality({i \in 2..Len(df) : df[i].lead_score # df[i - 1].lead_score})

AddScoredRow ==
    /\ FmtReady
    /\ Len(table) < TopN + MaxExtraRows
    /\ \E score \in TaskScores :
         LET t == Append(table, ScoredRow(Len(table) + 1, "al@acme.io", NaN, score))
         IN  /\ Runs(t) <= MaxRuns
             /\ table' = t
    /\ UNCHANGED <<out, is_trained, scaler, model, calls, succeeded, last, threads>>

CreateSalesTasks ==
    /\ FmtReady
    /\ \E tasks \in create_sales_tasks(table) :
         out' = [op |-> "create_sales_tasks", value |-> tasks]
    /\ UNCHANGED <<table, is_trained, scaler, model, calls, succeeded, last, threads>>

TasksNext == AddScoredRow \/ CreateSalesTasks \/ FmtResume

SpecTasks == Init /\ [][TasksNext]_vars

\* --------------------------------------------------------------- HubSpotAPI

\* Rows of a scored table whose contacts are given to upload_contacts.
MaxUploadRows == 4

\* hubspot_api.py:61: batch_size: int = 3.
BatchSize == 3

\* str(v) of a cell: nan becomes the text "nan".  The cells of the tables
\* have no whitespace around them, so str(v).strip() is str(v).
StrOfCell(v) == IF v = NaN THEN "nan" ELSE v

\* Python truth of a name (a text) and of a number.
TruthyText(cs) == cs # <<>>

TruthyNumber(n) == n # 0

\* A dict entry set under a condition: the entry, or nothing.
Entry(cond, key, val) == IF cond THEN key :> val ELSE <<>>

\* hubspot_api.py:183-201: the lines of the notes.  A contact made by
\* format_for_hubspot has no 'category' key, so no Category line.
ai_notes(contact_data) ==
    (IF TruthyNumber(contact_data.ai_lead_score)
     THEN LET score == IF contact_data.ai_lead_score <= 1
                       THEN contact_data.ai_lead_score * 100
                       ELSE contact_data.ai_lead_score
          IN  <<"AI Lead Score: " \o ToString(score) \o "/100">>
     ELSE <<>>)
    \o (IF Truthy(contact_data.lead_priority)
        THEN <<"Priority: " \o contact_data.lead_priority>> ELSE <<>>)
    \o <<"Enhanced: " \o Today, "Source: SaaSSquatch + AI Enhancement">>

\* hubspot_api.py:134-211, for a contact made by format_for_hubspot (it has
\* no Contact_Name, Contact_Title or Contact_Phone key): the properties
\* dict, a key being present only when the code sets it.
prepare_contact_properties(contact_data) ==
    Entry(Truthy(contact_data.email), "email", StrOfCell(contact_data.email))
    @@ Entry(TruthyText(contact_data.firstname), "firstname",
             Strip(contact_data.firstname))
    @@ Entry(TruthyText(contact_data.lastname), "lastname",
             Strip(contact_data.lastname))
    @@ Entry(Truthy(contact_data.company) /\ contact_data.company # NA,
             "company", StrOfCell(contact_data.company))
    @@ Entry(Truthy(contact_data.jobtitle) /\ contact_data.jobtitle # NA,
             "jobtitle", StrOfCell(contact_data.jobtitle))
    @@ Entry(Truthy(contact_data.phone) /\ contact_data.phone # NA,
             "phone", StrOfCell(contact_data.phone))
    @@ Entry(Truthy(contact_data.website) /\ contact_data.website # NA,
             "website", StrOfCell(contact_data.website))
    @@ Entry(Truthy(contact_data.city), "city", StrOfCell(contact_data.city))
    @@ Entry(Truthy(contact_data.state), "state", StrOfCell(contact_data.state))
    @@ [hs_content_membership_notes |-> ai_notes(contact_data),
        hs_lead_status |-> "NEW",
        lifecyclestage |-> "lead"]

\* properties.get('email'): the entry, or None (falsy, written "").
GetEmail(properties) ==
    IF "email" \in DOMAIN properties THEN properties.email ELSE ""

\* What the HubSpot create call can do with a contact: return the created
\* object, raise ApiException because the contact exists already, or raise
\* another exception.
CreateOutcomes == {"created", "ApiException: already exists", "Exception"}

\* The results dict before the loop, hubspot_api.py:64-70, with the list of
\* the properties given to the create call and the list of the contacts
\* handled, in the order the loop took them.
EmptyResults(contacts_data) ==
    [total_contacts |-> Len(contacts_data), successful |-> 0, failed |-> 0,
     errors |-> <<>>, created_contacts |-> <<>>,
     create_calls |-> <<>>, handled |-> <<>>]

\* hubspot_api.py:86-123: the loop body for contact j, the create call
\* ending as outcome says.
upload_one(results, contacts_data, j, outcome) ==
    LET contact_data == contacts_data[j]
        properties == prepare_contact_properties(contact_data)
        seen == [results EXCEPT !.handled = Append(@, j)]
        called == [seen EXCEPT !.create_calls = Append(@, properties)]
    IN  IF ~Truthy(GetEmail(properties))
        THEN [seen EXCEPT
                !.failed = @ + 1,
                !.errors = Append(@, "Contact " \o contact_data.company
                                        \o ": No email address")]
        ELSE IF outcome = "created"
        THEN [called EXCEPT
                !.successful = @ + 1,
                !.created_contacts =
                    Append(@, [hubspot_id |-> Len(called.create_calls),
                               email |-> GetEmail(properties),
                               company |-> properties.company,
                               ai_score |-> contact_data.ai_lead_score])]
        ELSE IF outcome = "ApiException: already exists"
        THEN [called EXCEPT
                !.failed = @ + 1,
                !.errors = Append(@, "Contact " \o StrOfCell(contact_data.email)
                                        \o ": Already exists in HubSpot")]
        ELSE [called EXCEPT
                !.failed = @ + 1,
                !.errors = Append(@, "Contact " \o StrOfCell(contact_data.email)
                                        \o ": " \o outcome)]

\* hubspot_api.py:85: the inner loop over the contacts from..to of a batch.
RECURSIVE upload_batch(_, _, _, _, _)
upload_batch(results, contacts_data, from, to, outcomes) ==
    IF from > to THEN results
    ELSE upload_batch(upload_one(results, contacts_data, from, outcomes[from]),
                      contacts_data, from + 1, to, outcomes)

\* hubspot_api.py:77-78: the loop over the batches, i the 0-based start of
\* the batch.
RECURSIVE upload_batches(_, _, _, _)
upload_batches(results, contacts_data, i, outcomes) ==
    IF i >= Len(contacts_data) THEN results
    ELSE LET last_of_batch == IF i + BatchSize < Len(contacts_data)
                              THEN i + BatchSize ELSE Len(contacts_data)
         IN  upload_batches(
                 upload_batch(results, contacts_data, i + 1, last_of_batch, outcomes),
                 contacts_data, i + BatchSize, outcomes)

\* upload_contacts giving up at the first create call that raises.
upload_contacts_stops_at_raise(contacts_data, outcomes) ==
    LET Raised(j) == /\ Truthy(GetEmail(prepare_contact_properties(contacts_data[j])))
                     /\ outcomes[j] # "created"
        stop == IF \E j \in 1..Len(contacts_data) : Raised(j)
                THEN CHOOSE j \in 1..Len(contacts_data) :
                        Raised(j) /\ \A h \in 1..(j - 1) : ~Raised(h)
                ELSE Len(contacts_data)
    IN  [upload_batch(EmptyResults(contacts_data), contacts_data, 1, stop, outcomes)
            EXCEPT !.total_contacts = Len(contacts_data)]

\* hubspot_api.py:61-132: upload_contacts(contacts_data), outcomes[j] being
\* what the create call does if it is made for contact j.
upload_contacts(contacts_data, outcomes) ==
    upload_batches(EmptyResults(contacts_data), contacts_data, 0, outcomes)

\* The rows whose contacts are uploaded: a row with an email, a row with
\* the text "N/A" for an email and a row with no email (nan), both with a
\* phone; their scores give ai_lead_score 0, 80 and 1.
UploadRowKinds ==
    {[email |-> "al@acme.io", phone |-> NaN, score |-> 0],
     [email |-> NA, phone |-> "555-010-0199", score |-> 800],
     [email |-> NaN, phone |-> "555-010-0199", score |-> 10]}

AddUploadRow ==
    /\ FmtReady
    /\ Len(table) < MaxUploadRows
    /\ \E kind \in UploadRowKinds :
         table' = Append(table,
                    ScoredRow(Len(table) + 1, kind.email, kind.phone, kind.score))
    /\ UNCHANGED <<out, is_trained, scaler, model, calls, succeeded, last, threads>>

\* app.py:350 and 468-473: the contacts of format_for_hubspot are given to
\* upload_contacts.
UploadContacts ==
    /\ FmtReady
    /\ LET contacts == format_for_hubspot(table).contacts
       IN  \E outcomes \in [1..Len(contacts) -> CreateOutcomes] :
             out' = [op |-> "upload_contacts",
                     value |-> [contacts |-> contacts,
                                results |-> upload_contacts(contacts, outcomes)]]
    /\ UNCHANGED <<table, is_trained, scaler, model, calls, succeeded, last, threads>>

UploadNext == AddUploadRow \/ UploadContacts \/ FmtResume

SpecUpload == Init /\ [][UploadNext]_vars

\* ------------------------------------------- create_training_labels alone

\* Rows of a table given to create_training_labels.
MaxLabelRows == 2

\* Noise draws of np.random.normal(0, 0.05) in hundredths, none of which
\* puts a multiple of 0.1 on the 0.6 threshold itself.
LabelNoise == {-11, -1, 1, 11}

\* Feature rows with every feature just below or on the threshold the
\* heuristic compares it with.
LabelRows ==
    {[email_quality |-> e, phone_quality |-> p, title_value |-> t,
      data_completeness |-> c, industry_fit |-> i] :
        e \in {79, 80}, p \in {79, 80}, t \in {79, 80}, c \in {74, 75},
        i \in {89, 90}}

\* The tables given to create_training_labels with the noise drawn for each
\* row: any row of LabelRows first, then PoorRow and MidRow rows.
LabelInputs ==
    {<<>>} \cup
    {<<[row |-> r, noise |-> z]>> \o rest :
        r \in LabelRows, z \in LabelNoise,
        rest \in SeqsUpTo([row : {PoorRow, MidRow}, noise : LabelNoise],
                          MaxLabelRows - 1)}

CreateTrainingLabels ==
    /\ Idle
    /\ \E input \in LabelInputs :
         LET rows == [i \in 1..Len(input) |-> input[i].row]
             noise == [i \in 1..Len(input) |-> input[i].noise]
             res == Return(ModelState, create_training_labels(rows, noise))
         IN  /\ SetState(res.st)
             /\ last' = Call("create_training_labels", input, ModelState, res)
    /\ UNCHANGED <<calls, succeeded, table, out, threads>>

LabelsNext == CreateTrainingLabels \/ Resume

SpecLabels == Init /\ [][LabelsNext]_vars

\* ---------------------------------------------------------- LeadProcessor

\* Rows of a raw lead table given to process_leads.
MaxRawRows == 2

\* Text cells are sequences of characters.  An absent cell (nan, what
\* pd.isna accepts) is NaNName and the sentinel "N/A" is NAName.
isna(v) == v = NaNName

Uppercase ==
    <<"A", "B", "C", "D", "E", "F", "G", "H", "I", "J", "K", "L", "M",
      "N", "O", "P", "Q", "R", "S", "T", "U", "V", "W", "X", "Y", "Z">>

Lowercase ==
    <<"a", "b", "c", "d", "e", "f", "g", "h", "i", "j", "k", "l", "m",
      "n", "o", "p", "q", "r", "s", "t", "u", "v", "w", "x", "y", "z">>

\* str.lower() of one character and of a text.
lower_char(c) ==
    IF \E k \in 1..Len(Uppercase) : Uppercase[k] = c
    THEN Lowercase[CHOOSE k \in 1..Len(Uppercase) : Uppercase[k] = c]
    ELSE c

lower(cs) == [k \in 1..Len(cs) |-> lower_char(cs[k])]

\* Python's `sub in text` for two texts.
Contains(text, sub) ==
    \E k \in 0..(Len(text) - Len(sub)) : SubSeq(text, k + 1, k + Len(sub)) = sub

\* str.split(sep) for a one-character separator.
RECURSIVE Split(_, _)
Split(cs, sep) ==
    IF \E k \in 1..Len(cs) : cs[k] = sep
    THEN LET k == CHOOSE j \in 1..Len(cs) :
                    cs[j] = sep /\ \A h \in 1..(j - 1) : cs[h] # sep
         IN  <<SubSeq(cs, 1, k - 1)>> \o Split(SubSeq(cs, k + 1, Len(cs)), sep)
    ELSE <<cs>>

\* re.match(r'^[^@]+@[^@]+\.[^@]+$', email): one or more characters other
\* than @, an @, one or more characters other than @, a dot, one or more
\* characters other than @, and the end of the text.
MatchesEmailPattern(email) ==
    \E a \in 1..Len(email), d \in 1..Len(email) :
        /\ email[a] = "@"
        /\ email[d] = "."
        /\ 1 < a /\ a + 1 < d /\ d < Len(email)
        /\ \A k \in 1..Len(email) : k # a => email[k] # "@"

personal_domains ==
    {<<"g", "m", "a", "i", "l", ".", "c", "o", "m">>,
     <<"y", "a", "h", "o", "o", ".", "c", "o", "m">>,
     <<"h", "o", "t", "m", "a", "i", "l", ".", "c", "o", "m">>,
     <<"o", "u", "t", "l", "o", "o", "k", ".", "c", "o", "m">>}

\* _score_email comparing the domain as written, without lower().
score_email_case_sensitive(email) ==
    IF isna(email) \/ email = NAName THEN 0
    ELSE IF ~MatchesEmailPattern(email) THEN 20
    ELSE IF Split(email, "@")[2] \in personal_domains THEN 60
    ELSE 100

\* data_processor.py:23-36.
score_email(email) ==
    IF isna(email) \/ email = NAName THEN 0
    ELSE IF ~MatchesEmailPattern(email) THEN 20
    ELSE LET domain == lower(Split(email, "@")[2])
         IN  IF domain \in personal_domains THEN 60 ELSE 100

IsDigit(c) == c \in {"0", "1", "2", "3", "4", "5", "6", "7", "8", "9"}

\* _score_phone returning a tenth of the digit count.
score_phone_by_digits(phone) ==
    IF isna(phone) \/ phone = NAName THEN 0
    ELSE 10 * Len(SelectSeq(phone, IsDigit))

\* data_processor.py:38-47.
score_phone(phone) ==
    IF isna(phone) \/ phone = NAName THEN 0
    ELSE LET digits == SelectSeq(phone, IsDigit)
         IN  IF Len(digits) \in {10, 11} THEN 100 ELSE 30

decision_maker_titles ==
    <<<<"c", "e", "o">>, <<"c", "t", "o">>, <<"v", "p">>, <<"d", "i", "r", "e", "c", "t", "o", "r">>,
      <<"f", "o", "u", "n", "d", "e", "r">>, <<"p", "r", "e", "s", "i", "d", "e", "n", "t">>>>

\* data_processor.py:49-65.
score_title(title) ==
    IF isna(title) \/ title = NAName THEN 0
    ELSE LET title_lower == lower(title)
         IN  IF \E k \in 1..Len(decision_maker_titles) :
                    Contains(title_lower, decision_maker_titles[k])
             THEN 100
             ELSE IF \E word \in {<<"m", "a", "n", "a", "g", "e", "r">>, <<"l", "e", "a", "d">>, <<"h", "e", "a", "d">>} :
                        Contains(title_lower, word)
             THEN 60
             ELSE 30

key_fields == <<"Contact_Email", "Contact_Phone", "Contact_Name", "Website">>

\* _calculate_completeness counting every cell that is not nan.
calculate_completeness_counts_na(df) ==
    [i \in 1..Len(df) |->
        (100 * Cardinality({f \in 1..Len(key_fields) : ~isna(df[i][key_fields[f]])}))
            \div Len(key_fields)]

\* data_processor.py:67-81: one score per row, in hundredths.
calculate_completeness(df) ==
    [i \in 1..Len(df) |->
        LET filled_count ==
                Cardinality({f \in 1..Len(key_fields) :
                    /\ ~isna(df[i][key_fields[f]])
                    /\ df[i][key_fields[f]] # NAName})
        IN  (100 * filled_count) \div Len(key_fields)]

tech_industries ==
    <<<<"s", "o", "f", "t", "w", "a", "r", "e">>, <<"t", "e", "c", "h", "n", "o", "l", "o", "g", "y">>,
      <<"s", "a", "a", "s">>, <<"t", "e", "c", "h">>>>

\* _score_industry taking "N/A" for an absent industry.
score_industry_na_missing(industry) ==
    IF isna(industry) \/ industry = NAName THEN 50
    ELSE IF \E k \in 1..Len(tech_industries) :
                Contains(lower(industry), tech_industries[k])
         THEN 100
         ELSE 70

\* data_processor.py:83-95.
score_industry(industry) ==
    IF isna(industry) THEN 50
    ELSE LET industry_lower == lower(industry)
         IN  IF \E k \in 1..Len(tech_industries) :
                    Contains(industry_lower, tech_industries[k])
             THEN 100
             ELSE 70

\* The five columns process_leads sets on row i of its copy.
features_of(df, i) ==
    [email_quality |-> score_email(df[i].Contact_Email),
     phone_quality |-> score_phone(df[i].Contact_Phone),
     title_value |-> score_title(df[i].Contact_Title),
     data_completeness |-> calculate_completeness(df)[i],
     industry_fit |-> score_industry(df[i].Industry)]

\* process_leads setting the columns on df itself, no copy made.
process_leads_in_place(df) ==
    LET df_processed == [i \in 1..Len(df) |-> features_of(df, i) @@ df[i]]
    IN  [df |-> df_processed, df_processed |-> df_processed]

\* data_processor.py:10-21: the frame passed in, as the call leaves it, and
\* the frame returned.  Setting a column replaces a column of that name.
process_leads(df) ==
    LET df_processed == [i \in 1..Len(df) |-> features_of(df, i) @@ df[i]]
    IN  [df |-> df, df_processed |-> df_processed]

\* Cells of a raw lead table.
RawEmails ==
    {NaNName, NAName,
     <<"a", "l", ".", "a", "c", "m", "e", ".", "i", "o">>,
     <<"a", "l", "@", "b", "@", "a", "c", "m", "e", ".", "i", "o">>,
     <<"a", "l", "@", "a", "c", "m", "e">>,
     <<"A", "l", "@", "G", "m", "a", "i", "l", ".", "c", "o", "m">>,
     <<"a", "l", "@", "a", "c", "m", "e", ".", "i", "o">>}

RawPhones ==
    {NaNName, NAName,
     <<"(", "5", "5", "5", ")", " ", "0", "1", "0", "-", "0", "1", "9", "9">>,
     <<"1", "-", "5", "5", "5", "-", "0", "1", "0", "-", "0", "1", "9", "9">>,
     <<"5", "5", "5", "-", "0", "1", "9", "9">>}

RawTitles ==
    {NaNName, NAName, <<"V", "P", " ", "S", "a", "l", "e", "s">>,
     <<"T", "e", "a", "m", " ", "L", "e", "a", "d">>, <<"A", "n", "a", "l", "y", "s", "t">>}

RawIndustries ==
    {NaNName, NAName, <<"S", "a", "a", "S">>, <<"F", "i", "n", "T", "e", "c", "h">>,
     <<"R", "e", "t", "a", "i", "l">>}

RawNames == {NaNName, NAName, <<"A", "l", " ", "B", "o">>}

RawWebsites == {NaNName, NAName, <<"w", "w", "w", ".", "a", "c", "m", "e", ".", "i", "o">>}

RawRow(industry, name, title, email, phone, website) ==
    [Company |-> "Acme", Industry |-> industry, Contact_Name |-> name,
     Contact_Title |-> title, Contact_Email |-> email, Contact_Phone |-> phone,
     Website |-> website]

\* Three plain rows: every field filled, every field absent, every field N/A.
PlainRows ==
    {RawRow(<<"S", "a", "a", "S">>, <<"A", "l", " ", "B", "o">>, <<"V", "P", " ", "S", "a", "l", "e", "s">>,
            <<"a", "l", "@", "a", "c", "m", "e", ".", "i", "o">>,
            <<"(", "5", "5", "5", ")", " ", "0", "1", "0", "-", "0", "1", "9", "9">>,
            <<"w", "w", "w", ".", "a", "c", "m", "e", ".", "i", "o">>),
     RawRow(NaNName, NaNName, NaNName, NaNName, NaNName, NaNName),
     RawRow(NAName, NAName, NAName, NAName, NAName, NAName)}

RawRows ==
    {RawRow(industry, name, title, email, phone, website) :
        industry \in RawIndustries, name \in RawNames, title \in RawTitles,
        email \in RawEmails, phone \in RawPhones, website \in RawWebsites}

\* A raw lead row is appended to the table: any row as the first one, a
\* plain row after it.
AddRawRow ==
    /\ FmtReady
    /\ Len(table) < MaxRawRows
    /\ \E row \in (IF table = <<>> THEN RawRows ELSE PlainRows) :
         table' = Append(table, row)
    /\ UNCHANGED <<out, is_trained, scaler, model, calls, succeeded, last, threads>>

ProcessLeads ==
    /\ FmtReady
    /\ LET res == process_leads(table)
       IN  /\ table' = res.df
           /\ out' = [op |-> "process_leads",
                      value |-> [df |-> table, df_processed |-> res.df_processed]]
    /\ UNCHANGED <<is_trained, scaler, model, calls, succeeded, last, threads>>

ProcNext == AddRawRow \/ ProcessLeads \/ FmtResume

SpecProc == Init /\ [][ProcNext]_vars

\* ------------------------------------------------------ claims: LeadScorer

NotTrainedError == "ValueError: Model must be trained first!"

ValidTable(df) ==
    /\ df.cols
    /\ Len(df.rows) >= 1
    /\ \A i \in 1..Len(df.rows) : IsFiniteRow(df.rows[i])

\* C1: predict_scores on a LeadScorer on which no train call has returned
\* raises the not-trained error, gives the caller no scores and leaves
\* is_trained, the scaler and the classifier as they were.
C1_PredictBeforeTrainRaises ==
    (last.op = "predict_scores" /\ succeeded = 0) =>
        /\ last.status = "raise"
        /\ last.err = NotTrainedError
        /\ last.value = <<>>
        /\ ModelState = last.pre

\* A predict_scores call on a well-formed table after a train call that
\* failed, no train call having returned.
C1_Witness ==
    /\ last.op = "predict_scores"
    /\ succeeded = 0
    /\ calls > 0
    /\ ValidTable(last.arg)
    /\ last.status = "raise"

\* C2: the model state starts untrained; is_trained becomes true only in a
\* train call that returns, and once true it stays true in every later
\* train, predict_scores, categorize_leads and get_feature_importance call.
C2_TrainedIsOneWay ==
    /\ ~is_trained
    /\ [][/\ is_trained => is_trained'
          /\ (~is_trained /\ is_trained') =>
                (last'.op = "train" /\ last'.status = "ok")]_vars

\* A train call that raised on a model that was, and still is, trained.
C2_Witness ==
    /\ last.op = "train"
    /\ last.status = "raise"
    /\ last.pre.is_trained
    /\ is_trained

\* C3: on a trained model the scaler and the classifier that predict_scores
\* uses were fitted by the same train call, whether the last train call
\* returned or raised.
C3_ScalerAndClassifierSameFit ==
    is_trained => scaler.fit = model.fit

\* C4: once a train call has returned, predict_scores on a well-formed table
\* of n rows returns n scores, the i-th being the score of the i-th row.
C4_PredictReturnsScorePerRow ==
    (last.op = "predict_scores" /\ succeeded > 0 /\ ValidTable(last.arg)) =>
        /\ last.status = "ok"
        /\ Len(last.value) = Len(last.arg.rows)
        /\ \A i \in 1..Len(last.arg.rows) : last.value[i].x = last.arg.rows[i]

\* C5: train on a table that is empty or lacks the feature columns raises,
\* gives the caller no metrics and leaves is_trained as it was.
C5_TrainRejectsEmptyOrColumnless ==
    (last.op = "train" /\ (~last.arg.cols \/ Len(last.arg.rows) = 0)) =>
        /\ last.status = "raise"
        /\ last.value = <<>>
        /\ is_trained = last.pre.is_trained

\* A train call on an empty table that has the feature columns, made on a
\* trained model.
C5_Witness ==
    /\ last.op = "train"
    /\ last.arg.cols
    /\ Len(last.arg.rows) = 0
    /\ last.pre.is_trained
    /\ last.status = "raise"

\* C6: predict_scores leaves the model state as it found it, and the same
\* call made again on the same rows gives the caller the same outcome, the
\* same scores included.
C6_PredictIsRepeatable ==
    last.op = "predict_scores" =>
        /\ ModelState = last.pre
        /\ Call("predict_scores", last.arg, ModelState,
                predict_scores(ModelState, last.arg)) = last

\* A predict_scores call that returned the scores of two rows or more.
C6_Witness ==
    /\ last.op = "predict_scores"
    /\ last.status = "ok"
    /\ Len(last.value) >= 2

\* The positions of a list of categories that hold category c.
Bucket(cats, c) == {i \in 1..Len(cats) : cats[i] = c}

\* C12: categorize_leads returns one category per score, in the order of the
\* scores: Hot Lead from 0.8, Warm Lead from 0.6 up to 0.8, Cold Lead from
\* 0.4 up to 0.6, Low Priority below 0.4; the four bucket counts add up to
\* the number of scores, and the model state is left as it was.
C12_OneCategoryPerScore ==
    last.op = "categorize_leads" =>
        LET scores == last.arg
            cats == last.value
        IN  /\ last.status = "ok"
            /\ Len(cats) = Len(scores)
            /\ \A i \in 1..Len(scores) :
                 /\ (cats[i] = "Hot Lead") <=> (scores[i] >= 800)
                 /\ (cats[i] = "Warm Lead") <=> (scores[i] >= 600 /\ scores[i] < 800)
                 /\ (cats[i] = "Cold Lead") <=> (scores[i] >= 400 /\ scores[i] < 600)
                 /\ (cats[i] = "Low Priority") <=> (scores[i] < 400)
            /\ Cardinality(Bucket(cats, "Hot Lead"))
                 + Cardinality(Bucket(cats, "Warm Lead"))
                 + Cardinality(Bucket(cats, "Cold Lead"))
                 + Cardinality(Bucket(cats, "Low Priority")) = Len(scores)
            /\ ModelState = last.pre

\* Two scores categorized, one of them exactly on a threshold, the two in
\* different buckets.
C12_Witness ==
    /\ last.op = "categorize_leads"
    /\ Len(last.value) = 2
    /\ \E i \in 1..2 : last.arg[i] \in {400, 600, 800}
    /\ last.value[1] # last.value[2]

\* C18: get_feature_importance on a model on which no train call has
\* returned gives the empty mapping, raises nothing and leaves the model
\* state as it was.
C18_ImportanceEmptyBeforeTraining ==
    (last.op = "get_feature_importance" /\ succeeded = 0) =>
        /\ last.status = "ok"
        /\ last.value = <<>>
        /\ ModelState = last.pre

\* get_feature_importance called after a train call that raised, no train
\* call having returned.
C18_Witness ==
    /\ last.op = "get_feature_importance"
    /\ succeeded = 0
    /\ calls > 0
    /\ last.status = "ok"

\* C19: once a train call has returned, get_feature_importance returns the
\* five feature names, each once, in descending order of their importance
\* rounded to 3 decimals, and the values add up to 1.0 within the rounding
\* of five values (0.0025).
C19_ImportancesSumToOne ==
    (last.op = "get_feature_importance" /\ succeeded > 0) =>
        /\ last.status = "ok"
        /\ Len(last.value) = 5
        /\ {last.value[k][1] : k \in 1..Len(last.value)}
             = {feature_columns[c] : c \in 1..Len(feature_columns)}
        /\ \A k \in 1..(Len(last.value) - 1) :
             last.value[k][2] >= last.value[k + 1][2]
        /\ SumSeq([k \in 1..Len(last.value) |-> last.value[k][2]]) \in 998..1002

\* C20: create_training_labels returns one label per row, in row order; the
\* label of a row is 1 exactly when its weight plus its own noise draw,
\* clamped to [0, 1], is above 0.6, the weight being 0.4 for email_quality
\* and title_value both 0.8 or more, plus 0.3 for data_completeness 0.75 or
\* more, plus 0.2 for industry_fit 0.9 or more, plus 0.1 for phone_quality
\* 0.8 or more; no other row enters it.
C20_LabelFromOwnWeightAndNoise ==
    last.op = "create_training_labels" =>
        /\ last.status = "ok"
        /\ Len(last.value) = Len(last.arg)
        /\ \A i \in 1..Len(last.arg) :
             LET row == last.arg[i].row
                 w == (IF row.email_quality >= 80 /\ row.title_value >= 80
                       THEN 40 ELSE 0)
                      + (IF row.data_completeness >= 75 THEN 30 ELSE 0)
                      + (IF row.industry_fit >= 90 THEN 20 ELSE 0)
                      + (IF row.phone_quality >= 80 THEN 10 ELSE 0)
                 noisy == w + last.arg[i].noise
                 clamped == IF noisy < 0 THEN 0 ELSE IF noisy > 100 THEN 100 ELSE noisy
             IN  /\ last.value[i] \in {0, 1}
                 /\ (last.value[i] = 1) <=> (clamped > 60)

\* Two rows labelled differently: a row of weight 0.6 lifted over the
\* threshold by its noise, and a row of weight 0.7 brought under it.
C20_Witness ==
    /\ last.op = "create_training_labels"
    /\ Len(last.arg) = 2
    /\ heuristic_score(last.arg[1].row) = 60
    /\ last.arg[1].noise > 0
    /\ last.value[1] = 1
    /\ heuristic_score(last.arg[2].row) = 70
    /\ last.arg[2].noise < -10
    /\ last.value[2] = 0

\* C24: a predict_scores call that runs while the first train call runs on
\* the same LeadScorer either raises the not-trained error or passes the
\* is_trained check, and then the scaler and the forest are, and stay, the
\* ones completely fitted by that train call: whatever it transforms with or
\* predicts with is fitted by train call 1, and its scores never come from
\* a fitted scaler and an unfitted or half-built forest.
C24_PredictNeverSeesHalfTraining ==
    LET predict == threads.predict
    IN  /\ (predict.pc = "done" /\ ~predict.passed) =>
               /\ predict.status = "raise"
               /\ predict.err = "ValueError: Model must be trained first!"
        /\ (predict.pc # "idle" /\ predict.passed) =>
               /\ is_trained
               /\ scaler = scaler_fit(<<>>, 1).scaler
               /\ model.fit = 1
               /\ predict.used_scaler \subseteq {scaler}
               /\ predict.used_model \subseteq {model}
        /\ predict.status = "ok" =>
               /\ predict.used_scaler # {} /\ predict.used_model # {}
               /\ \A i \in 1..Len(predict.value) :
                    predict.value[i].forest = 1 /\ predict.value[i].scaled_by = 1

\* The train call has set is_trained and has not returned; a predict_scores
\* call made during the fits raised the not-trained error and this one
\* returned scores.
C24_Witness ==
    /\ TrainAt("return")
    /\ threads.predict.refused >= 1
    /\ threads.predict.pc = "done"
    /\ threads.predict.status = "ok"
    /\ Len(threads.predict.value) >= 1

\* ------------------------------------------------ claims: HubSpotFormatter

\* A cell that holds no value: absent (nan) or the N/A sentinel.
Missing(v) == v = NaN \/ v = NA

\* The rows of the table with an email or a phone, by the claim's reading.
RowsWithContactInfo ==
    {i \in 1..Len(table) :
        ~Missing(table[i].Contact_Email) \/ ~Missing(table[i].Contact_Phone)}

\* The row a contact or a task was built from, found by its company.
RowOfCompany(company) ==
    CHOOSE i \in 1..Len(table) : table[i].Company = company

\* C7: format_for_hubspot emits one contact, in row order and built from
\* that row, for each row with a non-missing email or a non-missing phone,
\* and none for a row where both are missing (absent or "N/A").
C7_OneContactPerReachableRow ==
    out.op = "format_for_hubspot" =>
        LET contacts == out.value.contacts
        IN  /\ Len(contacts) = Cardinality(RowsWithContactInfo)
            /\ \A k \in 1..Len(contacts) :
                 /\ RowOfCompany(contacts[k].company) \in RowsWithContactInfo
                 /\ contacts[k] = format_contact(table[RowOfCompany(contacts[k].company)])
                 /\ Cardinality({i \in RowsWithContactInfo :
                                   i < RowOfCompany(contacts[k].company)}) = k - 1

\* C8: every exported contact has ai_lead_score in 0..100, a nearest integer
\* of lead_score * 100, and lead_priority High from 0.8, Medium from 0.6 up
\* to 0.8, Low below; a score of 0.95 gives 95 and High.
C8_ScoreRescaledAndPrioritised ==
    out.op = "format_for_hubspot" =>
        \A k \in 1..Len(out.value.contacts) :
            LET c == out.value.contacts[k]
                score == table[RowOfCompany(c.company)].lead_score
            IN  /\ c.ai_lead_score \in 0..100
                /\ 10 * c.ai_lead_score - score <= 5
                /\ score - 10 * c.ai_lead_score <= 5
                /\ (score >= 800) <=> (c.lead_priority = "High")
                /\ (score >= 600 /\ score < 800) <=> (c.lead_priority = "Medium")
                /\ (score < 600) <=> (c.lead_priority = "Low")
                /\ (score = 950) => (c.ai_lead_score = 95 /\ c.lead_priority = "High")

\* Contacts exported for a score of 0.797 (rounded up to 80, Medium), a score
\* of 0.95 and the tie 0.125.
C8_Witness ==
    /\ out.op = "format_for_hubspot"
    /\ \E k \in 1..Len(out.value.contacts) :
         /\ table[RowOfCompany(out.value.contacts[k].company)].lead_score = 797
         /\ out.value.contacts[k].ai_lead_score = 80
    /\ \E k \in 1..Len(out.value.contacts) :
         table[RowOfCompany(out.value.contacts[k].company)].lead_score \in {125, 950}

\* The task's row, found by the company in its title.
RowOfTask(task) ==
    CHOOSE i \in 1..Len(table) :
        task.title \in {"URGENT: Call " \o table[i].Company,
                        "Research and reach out to " \o table[i].Company}

\* Row j comes before row i in the order of descending score, rows of equal
\* score in table order.
RanksBefore(j, i) ==
    \/ table[j].lead_score > table[i].lead_score
    \/ (table[j].lead_score = table[i].lead_score /\ j < i)

\* The ten highest-scoring rows, ties broken by table order.
TopTen ==
    {i \in 1..Len(table) :
        Cardinality({j \in 1..Len(table) : RanksBefore(j, i)}) < 10}

\* C9: create_sales_tasks returns at most 10 tasks and none for a row whose
\* score is below 0.6, also when that row is among the ten highest-scoring.
C9_AtMostTenTasksNoneBelowMedium ==
    out.op = "create_sales_tasks" =>
        /\ Len(out.value) <= 10
        /\ \A k \in 1..Len(out.value) :
             table[RowOfTask(out.value[k])].lead_score >= 600

\* Tasks made from a table of more than ten rows in which a row below 0.6 is
\* among the ten highest-scoring.
C9_Witness ==
    /\ out.op = "create_sales_tasks"
    /\ Len(table) > 10
    /\ \E i \in TopTen : table[i].lead_score < 600
    /\ Len(out.value) >= 1

\* C10: the tasks are those of the ten highest-scoring rows (ties for the
\* ten places broken by table order) that score 0.6 or more, one task a row,
\* in descending score order: a High 'call' task due "1 day" from 0.8, a
\* Medium 'research' task due "3 days" below; every High task comes before
\* every Medium task.
C10_TasksFollowTopTenOrder ==
    out.op = "create_sales_tasks" =>
        LET tasks == out.value
            Q == {i \in TopTen : table[i].lead_score >= 600}
        IN  /\ Len(tasks) = Cardinality(Q)
            /\ {RowOfTask(tasks[k]) : k \in 1..Len(tasks)} = Q
            /\ \A k \in 1..Len(tasks) :
                 LET i == RowOfTask(tasks[k])
                 IN  IF table[i].lead_score >= 800
                     THEN /\ tasks[k].priority = "High"
                          /\ tasks[k].task_type = "call"
                          /\ tasks[k].due_date = "1 day"
                     ELSE /\ tasks[k].priority = "Medium"
                          /\ tasks[k].task_type = "research"
                          /\ tasks[k].due_date = "3 days"
            /\ \A k, h \in 1..Len(tasks) :
                 /\ k < h => table[RowOfTask(tasks[k])].lead_score
                                >= table[RowOfTask(tasks[h])].lead_score
                 /\ (tasks[k].priority = "High" /\ tasks[h].priority = "Medium")
                        => k < h

\* Ten tasks, High and Medium, made from an eleven-row table in which a row
\* that scores 0.6 or more is cut, its score tied with a row that is kept.
C10_Witness ==
    /\ out.op = "create_sales_tasks"
    /\ Len(table) > 10
    /\ Len(out.value) = 10
    /\ \E k, h \in 1..10 :
         out.value[k].priority = "High" /\ out.value[h].priority = "Medium"
    /\ \E i \in 1..Len(table), j \in TopTen :
         /\ i \notin TopTen
         /\ table[i].lead_score >= 600
         /\ table[i].lead_score = table[j].lead_score

\* The rows of the table in the hot bucket (score 0.8 or more) and in the
\* warm bucket (score from 0.6 up to, not including, 0.8).
HotRows == {i \in 1..Len(table) : table[i].lead_score >= 800}

WarmRows ==
    {i \in 1..Len(table) : table[i].lead_score >= 600 /\ table[i].lead_score < 800}

\* C11: generate_recommended_workflows returns the hot workflow record iff
\* some row scores 0.8 or more and the warm one iff some row scores from 0.6
\* up to 0.8, hot before warm and nothing else; each record has 3 actions
\* and affected_leads equal to the number of rows of its bucket, and the two
\* counts together do not exceed the number of rows.
C11_WorkflowPerNonEmptyBucket ==
    out.op = "generate_recommended_workflows" =>
        LET wf == out.value
            hot == {k \in 1..Len(wf) : wf[k].name = "Hot Lead Immediate Follow-up"}
            warm == {k \in 1..Len(wf) : wf[k].name = "Warm Lead Nurture Sequence"}
        IN  /\ (hot # {}) <=> (HotRows # {})
            /\ (warm # {}) <=> (WarmRows # {})
            /\ Cardinality(hot) <= 1 /\ Cardinality(warm) <= 1
            /\ hot \cup warm = 1..Len(wf)
            /\ \A k \in hot, h \in warm : k < h
            /\ \A k \in 1..Len(wf) : Len(wf[k].actions) = 3
            /\ \A k \in hot : wf[k].affected_leads = Cardinality(HotRows)
            /\ \A k \in warm : wf[k].affected_leads = Cardinality(WarmRows)
            /\ Cardinality(HotRows) + Cardinality(WarmRows) <= Len(table)

\* Both workflows returned for a table with a row at exactly 0.8 and a row
\* in the warm bucket.
C11_Witness ==
    /\ out.op = "generate_recommended_workflows"
    /\ Len(out.value) = 2
    /\ \E i \in HotRows : table[i].lead_score = 800
    /\ WarmRows # {}

\* C21: every task of create_sales_tasks, High or Medium, has a description
\* that holds the score of its lead as a rounded percentage and the contact
\* name of its lead.
C21_DescriptionHasScoreAndContact ==
    out.op = "create_sales_tasks" =>
        \A k \in 1..Len(out.value) :
            LET lead == table[RowOfTask(out.value[k])]
                description == out.value[k].description
            IN  /\ 10 * description.pct - lead.lead_score <= 5
                /\ lead.lead_score - 10 * description.pct <= 5
                /\ "contact" \in DOMAIN description
                /\ description.contact = lead.Contact_Name

Min(a, b) == IF a < b THEN a ELSE b

\* affected_leads of the hot workflow of the table, 0 when there is none.
HotAffectedLeads ==
    LET wf == generate_recommended_workflows(table)
        hot == {k \in 1..Len(wf) : wf[k].name = "Hot Lead Immediate Follow-up"}
    IN  IF hot = {} THEN 0 ELSE wf[CHOOSE k \in hot : TRUE].affected_leads

\* C25: create_sales_tasks returns min(10, rows scoring 0.6 or more) tasks,
\* of which min(10, rows scoring 0.8 or more) are High, the latter count
\* being affected_leads of the hot workflow; a row that scores 0.6 or more
\* and has no task has ten tasks of rows that score at least as much.
C25_TaskCountsAreCappedBucketCounts ==
    out.op = "create_sales_tasks" =>
        LET tasks == out.value
            high == {k \in 1..Len(tasks) : tasks[k].priority = "High"}
            tasked == {RowOfTask(tasks[k]) : k \in 1..Len(tasks)}
        IN  /\ Len(tasks) = Min(10, Cardinality(HotRows) + Cardinality(WarmRows))
            /\ Cardinality(high) = Min(10, Cardinality(HotRows))
            /\ Cardinality(high) = Min(10, HotAffectedLeads)
            /\ \A i \in (HotRows \cup WarmRows) \ tasked :
                 /\ Cardinality(tasked) = 10
                 /\ \A j \in tasked : table[j].lead_score >= table[i].lead_score

\* Eleven rows, all scoring 0.6 or more, the first of them lower than a later
\* one: ten tasks, one qualifying row left out.
C25_Witness ==
    /\ out.op = "create_sales_tasks"
    /\ Cardinality(HotRows) + Cardinality(WarmRows) > 10
    /\ HotRows # {}
    /\ Len(out.value) = 10
    /\ \E i, j \in 1..Len(table) : i < j /\ table[i].lead_score < table[j].lead_score
    /\ 1 \notin {RowOfTask(out.value[k]) : k \in 1..Len(out.value)}

\* C23: every exported contact has lead_priority High exactly when its
\* ai_lead_score is 80 or more, the trigger of the hot workflow, whose
\* affected_leads counts the rows with lead_score 0.8 or more.
C23_HighIffScoreAtLeast80 ==
    out.op = "format_for_hubspot" =>
        \A k \in 1..Len(out.value.contacts) :
            (out.value.contacts[k].lead_priority = "High")
                <=> (out.value.contacts[k].ai_lead_score >= 80)

\* The positions of the whitespace characters of a name.
WhitespaceAt(name) == {k \in 1..Len(name) : name[k] \in {" ", "\t"}}

\* C22: every exported contact has as firstname the part of Contact_Name
\* (spaces around it set aside) before its first whitespace character and as
\* lastname everything after that character, empty when the name has no
\* whitespace; an absent or "N/A" name gives an empty firstname and an empty
\* lastname.
C22_NameSplitAtFirstWhitespace ==
    out.op = "format_for_hubspot" =>
        \A k \in 1..Len(out.value.contacts) :
            LET c == out.value.contacts[k]
                full_name == table[RowOfCompany(c.company)].Contact_Name
                name == Strip(full_name)
            IN  IF full_name = NaNName \/ full_name = NAName
                THEN c.firstname = <<>> /\ c.lastname = <<>>
                ELSE IF WhitespaceAt(name) = {}
                THEN c.firstname = name /\ c.lastname = <<>>
                ELSE LET b == CHOOSE i \in WhitespaceAt(name) :
                                \A j \in WhitespaceAt(name) : i <= j
                     IN  /\ c.firstname = SubSeq(name, 1, b - 1)
                         /\ c.lastname = SubSeq(name, b + 1, Len(name))

\* ---------------------------------------------------- claims: LeadProcessor

RawFields ==
    {"Company", "Industry", "Contact_Name", "Contact_Title", "Contact_Email",
     "Contact_Phone", "Website"}

FeatureNames == {feature_columns[c] : c \in 1..Len(feature_columns)}

\* A cell with no value: absent, or the "N/A" sentinel.
NoValue(cell) == cell = NaNName \/ cell = NAName

\* The fields of a raw row that hold no value.
FieldsWithoutValue(row) == {f \in RawFields \ {"Company"} : NoValue(row[f])}

\* C13: for every raw row, whichever of its fields are absent or "N/A", the
\* row returned by process_leads has email_quality, phone_quality,
\* title_value, data_completeness and industry_fit, each between 0 and 1.
C13_FiveFeaturesDefinedInUnitRange ==
    out.op = "process_leads" =>
        /\ Len(out.value.df_processed) = Len(out.value.df)
        /\ \A i \in 1..Len(out.value.df_processed) :
             /\ FeatureNames \subseteq DOMAIN out.value.df_processed[i]
             /\ \A f \in FeatureNames :
                  /\ out.value.df_processed[i][f] >= 0
                  /\ out.value.df_processed[i][f] <= 100

\* Rows processed with three of their fields without a value, some absent
\* and some "N/A", and an 11-digit phone.
C13_Witness ==
    /\ out.op = "process_leads"
    /\ \E i \in 1..Len(out.value.df) :
         LET row == out.value.df[i]
         IN  /\ Cardinality(FieldsWithoutValue(row)) = 3
             /\ \E f, g \in FieldsWithoutValue(row) :
                  row[f] = NaNName /\ row[g] = NAName
             /\ Len(SelectSeq(row.Contact_Phone, IsDigit)) = 11

CompletenessFields == {"Contact_Email", "Contact_Phone", "Contact_Name", "Website"}

\* C14: data_completeness of a row is the number of its fields Contact_Email,
\* Contact_Phone, Contact_Name and Website that are neither absent nor "N/A",
\* divided by 4 (1.0 for four, 0.0 for none): a value fixed by that row alone,
\* whatever the other rows of the table are.
C14_CompletenessIsFilledQuarter ==
    out.op = "process_leads" =>
        \A i \in 1..Len(out.value.df) :
            LET row == out.value.df[i]
                filled == {f \in CompletenessFields : ~NoValue(row[f])}
            IN  /\ 4 * out.value.df_processed[i].data_completeness
                      = 100 * Cardinality(filled)
                /\ filled = CompletenessFields
                      => out.value.df_processed[i].data_completeness = 100
                /\ filled = {}
                      => out.value.df_processed[i].data_completeness = 0

\* A two-row table: a row with an absent field, an "N/A" field and two
\* filled fields next to a row of another completeness.
C14_Witness ==
    /\ out.op = "process_leads"
    /\ Len(out.value.df) = 2
    /\ \E i, j \in 1..2 :
         /\ out.value.df_processed[i].data_completeness = 50
         /\ \E f, g \in CompletenessFields :
              out.value.df[i][f] = NaNName /\ out.value.df[i][g] = NAName
         /\ out.value.df_processed[j].data_completeness # 50

\* C15: industry_fit is 0.5 for an absent Industry, 0.7 for the text "N/A"
\* as for any industry without a tech keyword, and 1.0 when the lowercased
\* industry contains software, technology, saas or tech; email_quality,
\* phone_quality and title_value are 0.0 for an absent value and for "N/A"
\* alike.
C15_IndustryTellsAbsentFromNA ==
    out.op = "process_leads" =>
        \A i \in 1..Len(out.value.df) :
            LET row == out.value.df[i]
                feat == out.value.df_processed[i]
                IsTech ==
                    /\ row.Industry # NaNName
                    /\ \E w \in {<<"s", "o", "f", "t", "w", "a", "r", "e">>,
                                 <<"t", "e", "c", "h", "n", "o", "l", "o", "g", "y">>,
                                 <<"s", "a", "a", "s">>, <<"t", "e", "c", "h">>} :
                          Contains(lower(row.Industry), w)
            IN  /\ row.Industry = NaNName => feat.industry_fit = 50
                /\ row.Industry = NAName => feat.industry_fit = 70
                /\ IsTech => feat.industry_fit = 100
                /\ (row.Industry # NaNName /\ ~IsTech) => feat.industry_fit = 70
                /\ NoValue(row.Contact_Email) => feat.email_quality = 0
                /\ NoValue(row.Contact_Phone) => feat.phone_quality = 0
                /\ NoValue(row.Contact_Title) => feat.title_value = 0

\* A table with an absent Industry in one row and "N/A" in another, scored
\* differently, the title absent in one and "N/A" in the other, scored alike.
C15_Witness ==
    /\ out.op = "process_leads"
    /\ \E i, j \in 1..Len(out.value.df) :
         /\ out.value.df[i].Industry = NaNName
         /\ out.value.df[j].Industry = NAName
         /\ out.value.df_processed[i].industry_fit
              # out.value.df_processed[j].industry_fit
         /\ out.value.df[i].Contact_Title = NaNName
         /\ out.value.df[j].Contact_Title = NAName
         /\ out.value.df_processed[i].title_value
              = out.value.df_processed[j].title_value

\* The shape local@domain.tld: one @, text before it, and after it text with
\* a dot that has text on both sides.
WellFormedEmail(email) ==
    /\ Cardinality({k \in 1..Len(email) : email[k] = "@"}) = 1
    /\ LET a == CHOOSE k \in 1..Len(email) : email[k] = "@"
       IN  /\ a > 1
           /\ \E d \in (a + 2)..(Len(email) - 1) : email[d] = "."

\* The text after the @ of a well-formed email, in lower case.
DomainOf(email) ==
    LET a == CHOOSE k \in 1..Len(email) : email[k] = "@"
    IN  lower(SubSeq(email, a + 1, Len(email)))

WebmailDomains ==
    {<<"g", "m", "a", "i", "l", ".", "c", "o", "m">>,
     <<"y", "a", "h", "o", "o", ".", "c", "o", "m">>,
     <<"h", "o", "t", "m", "a", "i", "l", ".", "c", "o", "m">>,
     <<"o", "u", "t", "l", "o", "o", "k", ".", "c", "o", "m">>}

\* C16: email_quality is 0.0 for a missing email, 0.2 for an email that is
\* not well formed, 0.6 for a well-formed email whose domain, compared
\* without regard to case, is gmail.com, yahoo.com, hotmail.com or
\* outlook.com, and 1.0 for any other well-formed email.
C16_EmailQualityFourLevels ==
    out.op = "process_leads" =>
        \A i \in 1..Len(out.value.df) :
            LET email == out.value.df[i].Contact_Email
                q == out.value.df_processed[i].email_quality
            IN  q = IF NoValue(email) THEN 0
                    ELSE IF ~WellFormedEmail(email) THEN 20
                    ELSE IF DomainOf(email) \in WebmailDomains THEN 60
                    ELSE 100

\* A webmail address written with capitals scored 0.6.
C16_Witness ==
    /\ out.op = "process_leads"
    /\ \E i \in 1..Len(out.value.df) :
         /\ out.value.df_processed[i].email_quality = 60
         /\ out.value.df[i].Contact_Email # lower(out.value.df[i].Contact_Email)

\* C17: process_leads leaves the table it was given as it was and returns a
\* table with the same number of rows, row i holding the fields of row i
\* unchanged and the five feature columns besides.
C17_InputKeptCopyExtended ==
    out.op = "process_leads" =>
        /\ table = out.value.df
        /\ Len(out.value.df_processed) = Len(out.value.df)
        /\ \A i \in 1..Len(out.value.df) :
             /\ DOMAIN out.value.df[i] = RawFields
             /\ DOMAIN out.value.df_processed[i] = RawFields \cup FeatureNames
             /\ \A f \in RawFields :
                  out.value.df_processed[i][f] = out.value.df[i][f]

\* A table of two different rows processed.
C17_Witness ==
    /\ out.op = "process_leads"
    /\ Len(out.value.df) = 2
    /\ out.value.df[1] # out.value.df[2]
    /\ out.value.df_processed[1].email_quality
         # out.value.df_processed[2].email_quality

\* ------------------------------------------------------- claims: HubSpotAPI

\* C26: upload_contacts handles every contact of its list once, in list
\* order, whichever create calls return or raise; when it returns,
\* total_contacts is the length of the list and equals successful + failed,
\* created_contacts has successful entries and errors has failed entries.
C26_EveryContactCountedOnce ==
    out.op = "upload_contacts" =>
        LET contacts == out.value.contacts
            results == out.value.results
        IN  /\ results.handled = [j \in 1..Len(contacts) |-> j]
            /\ results.total_contacts = Len(contacts)
            /\ results.successful + results.failed = results.total_contacts
            /\ Len(results.created_contacts) = results.successful
            /\ Len(results.errors) = results.failed

\* Four contacts, more than a batch: the first create call raised and a
\* later one returned.
C26_Witness ==
    /\ out.op = "upload_contacts"
    /\ Len(out.value.contacts) > BatchSize
    /\ out.value.results.successful >= 1
    /\ out.value.results.created_contacts[1].hubspot_id > 1
    /\ out.value.results.handled[Len(out.value.results.handled)]
         = Len(out.value.contacts)

\* C27: a contact made from a row with a phone and no email (absent or
\* "N/A") is never given to the create call: it is counted as failed with
\* the error 'No email address'; every created contact has an email.
C27_NoEmailNeverSent ==
    out.op = "upload_contacts" =>
        LET contacts == out.value.contacts
            results == out.value.results
        IN  /\ \A j \in 1..Len(contacts) :
                 Missing(table[RowOfCompany(contacts[j].company)].Contact_Email) =>
                    /\ \A k \in 1..Len(results.create_calls) :
                         results.create_calls[k].company # contacts[j].company
                    /\ \E k \in 1..Len(results.errors) :
                         results.errors[k] = "Contact " \o contacts[j].company
                                                \o ": No email address"
            /\ \A k \in 1..Len(results.created_contacts) :
                 results.created_contacts[k].email # ""

\* C28: the notes built for a contact hold the line 'AI Lead Score: N/100'
\* with N the ai_lead_score of the contact, an integer from 0 to 100.
C28_NotesCarryTheScore ==
    out.op = "upload_contacts" =>
        \A k \in 1..Len(out.value.results.create_calls) :
            LET properties == out.value.results.create_calls[k]
                notes == properties.hs_content_membership_notes
                contact == CHOOSE c \in {out.value.contacts[j] :
                                            j \in 1..Len(out.value.contacts)} :
                              c.company = properties.company
            IN  /\ contact.ai_lead_score \in 0..100
                /\ \E n \in 1..Len(notes) :
                     notes[n] = "AI Lead Score: "
                                   \o ToString(contact.ai_lead_score) \o "/100"

====
